---- MODULE Spec2Model ----
(***************************************************************************)
(* Model of git-releaser's new_release.py: the NewRelease class bumps the  *)
(* version declared in setup.py, rewrites the file, stages it, commits and *)
(* tags.  Text is modelled character by character (a string is a sequence  *)
(* of one-character strings) so that the regular expression search, strip, *)
(* replace, split, int() and format() of the source are computed, not      *)
(* assumed.  The file on disk is a sequence of characters; reading and     *)
(* writing it go through Python's text layer (universal newlines on read,  *)
(* os.linesep on write, here a POSIX host).                                *)
(***************************************************************************)
EXTENDS Integers, Sequences, FiniteSets, TLC

(***************************************************************************)
(* Bounds of the model.                                                    *)
(***************************************************************************)
MaxLines == 2
MaxRuns == 2

(***************************************************************************)
(* Characters and literals.                                                *)
(***************************************************************************)
LF == "\n"
CR == "\r"
DigitChars == <<"0", "1", "2", "3", "4", "5", "6", "7", "8", "9">>
IsDigit(c) == \E d \in 1..10 : DigitChars[d] = c
DigitVal(c) == (CHOOSE d \in 1..10 : DigitChars[d] = c) - 1
IsSpace(c) == c \in {" ", "\t", "\n", "\r"}

\* Python's None, as returned by get_version_from_line when nothing matches.
None == <<"None">>

\* NewRelease.__BUMP_VERSIONS
BUMP_VERSIONS == {"major", "minor", "patch"}

\* the literal 'version=' of extract_current_version
VERSION_EQ == <<"v", "e", "r", "s", "i", "o", "n", "=">>

(***************************************************************************)
(* str primitives of Python used by the source.                            *)
(***************************************************************************)
\* p occurs in s starting at index i
OccursAt(s, p, i) ==
    /\ i >= 1
    /\ i + Len(p) - 1 <= Len(s)
    /\ SubSeq(s, i, i + Len(p) - 1) = p

\* `p in s`
Contains(s, p) == \E i \in 1..Len(s) : OccursAt(s, p, i)

\* number of digits of the maximal run of digits of s starting at index i
RECURSIVE DigitRun(_, _)
DigitRun(s, i) ==
    IF i <= Len(s) /\ IsDigit(s[i]) THEN 1 + DigitRun(s, i + 1) ELSE 0

\* __VERSION_STRING = '[0-9]+\.[0-9]+\.[0-9]+' tried at index i: the index of
\* the last character of the (greedy) match, or 0 when there is no match at i.
MatchEndAt(s, i) ==
    LET n1 == DigitRun(s, i)
        d1 == i + n1
        n2 == DigitRun(s, d1 + 1)
        d2 == d1 + 1 + n2
        n3 == DigitRun(s, d2 + 1)
    IN  IF /\ n1 >= 1
           /\ d1 <= Len(s) /\ s[d1] = "."
           /\ n2 >= 1
           /\ d2 <= Len(s) /\ s[d2] = "."
           /\ n3 >= 1
        THEN d2 + n3
        ELSE 0

\* str.strip()
RECURSIVE LStrip(_)
LStrip(s) == IF s # <<>> /\ IsSpace(Head(s)) THEN LStrip(Tail(s)) ELSE s
RECURSIVE RStrip(_)
RStrip(s) ==
    IF s # <<>> /\ IsSpace(s[Len(s)]) THEN RStrip(SubSeq(s, 1, Len(s) - 1)) ELSE s
Strip(s) == RStrip(LStrip(s))

\* str.replace(old, new): every non-overlapping occurrence, left to right
RECURSIVE Replace(_, _, _)
Replace(s, old, new) ==
    IF s = <<>> THEN <<>>
    ELSE IF OccursAt(s, old, 1)
         THEN new \o Replace(SubSeq(s, Len(old) + 1, Len(s)), old, new)
         ELSE <<Head(s)>> \o Replace(Tail(s), old, new)

\* str.split('.')
RECURSIVE SplitDot(_)
SplitDot(s) ==
    IF \E i \in 1..Len(s) : s[i] = "."
    THEN LET i == CHOOSE k \in 1..Len(s) :
                     s[k] = "." /\ \A j \in 1..(k - 1) : s[j] # "."
         IN  <<SubSeq(s, 1, i - 1)>> \o SplitDot(SubSeq(s, i + 1, Len(s)))
    ELSE <<s>>

\* int(str) of a string of decimal digits
RECURSIVE ParseInt(_)
ParseInt(s) ==
    IF s = <<>> THEN 0
    ELSE 10 * ParseInt(SubSeq(s, 1, Len(s) - 1)) + DigitVal(s[Len(s)])

\* '{}'.format(n) of a non-negative int
RECURSIVE FormatInt(_)
FormatInt(n) ==
    IF n < 10 THEN <<DigitChars[n + 1]>>
    ELSE FormatInt(n \div 10) \o <<DigitChars[(n % 10) + 1]>>

(***************************************************************************)
(* Python's text layer over the file (open() with the default newline      *)
(* mode): on read "\r\n" and "\r" become "\n" and iteration yields lines   *)
(* that keep their "\n"; on write "\n" becomes os.linesep.                 *)
(***************************************************************************)
linesep == <<LF>>

\* universal newlines: every "\r" becomes "\n" and the "\n" of a "\r\n" is dropped
Decode(b) ==
    LET Dropped == "dropped"
        marked == [i \in 1..Len(b) |->
                      IF b[i] = CR THEN LF
                      ELSE IF b[i] = LF /\ i > 1 /\ b[i - 1] = CR THEN Dropped
                      ELSE b[i]]
    IN  SelectSeq(marked, LAMBDA c : c # Dropped)

Encode(t) == Replace(t, <<LF>>, linesep)

\* the lines a `for line in file` loop yields over text t
RECURSIVE SplitLines(_)
SplitLines(t) ==
    IF t = <<>> THEN <<>>
    ELSE IF \E i \in 1..Len(t) : t[i] = LF
         THEN LET i == CHOOSE k \in 1..Len(t) :
                          t[k] = LF /\ \A j \in 1..(k - 1) : t[j] # LF
              IN  <<SubSeq(t, 1, i)>> \o SplitLines(SubSeq(t, i + 1, Len(t)))
         ELSE <<t>>

ReadLines(b) == SplitLines(Decode(b))

RECURSIVE Concat(_)
Concat(ls) == IF ls = <<>> THEN <<>> ELSE Head(ls) \o Concat(Tail(ls))

WriteLines(ls) == Encode(Concat(ls))

(***************************************************************************)
(* The manifests the model starts from: up to MaxLines lines drawn from a  *)
(* pool of setup.py lines, in one of three line-ending styles.             *)
(***************************************************************************)
L_name ==
    <<"n", "a", "m", "e", "=", "'", "x", "'", ",">>
L_version ==
    <<"v", "e", "r", "s", "i", "o", "n", "=", "'", "0", ".", "1", ".", "0",
      "'", ",">>
L_short ==
    <<"v", "e", "r", "s", "i", "o", "n", "=", "'", "1", ".", "2", "'", ",">>
L_dquote ==
    <<"v", "e", "r", "s", "i", "o", "n", "=", "\"", "0", ".", "1", ".", "0",
      "\"", ",">>
L_zeros ==
    <<" ", " ", " ", " ", "v", "e", "r", "s", "i", "o", "n", "=", "'", "1",
      ".", "0", "9", ".", "9", "'", ",">>

LinePool == {L_name, L_version, L_short, L_dquote, L_zeros}
Styles == {"lf", "crlf", "lf-no-final-newline"}

RECURSIVE FileOf(_, _)
FileOf(ls, style) ==
    IF ls = <<>> THEN <<>>
    ELSE Head(ls)
         \o (IF style = "crlf" THEN <<CR, LF>>
             ELSE IF style = "lf-no-final-newline" /\ Len(ls) = 1 THEN <<>>
             ELSE <<LF>>)
         \o FileOf(Tail(ls), style)

Manifests ==
    { FileOf(ls, style) :
        ls \in UNION { [1..n -> LinePool] : n \in 1..MaxLines }, style \in Styles }

\* 'New release: v' and 'v' of update_git
MSG_PREFIX ==
    <<"N", "e", "w", " ", "r", "e", "l", "e", "a", "s", "e", ":", " ", "v">>
TAG_PREFIX == <<"v">>

\* a tag that may exist in the repository before the tool ever ran
V020 ==
    <<"v", "0", ".", "2", ".", "0">>

(***************************************************************************)
(* The methods of NewRelease, as functions of what they read.              *)
(***************************************************************************)
\* re.search(__VERSION_STRING, line).group(0), None when nothing matches
get_version_from_line(line) ==
    IF \E i \in 1..Len(line) : MatchEndAt(line, i) > 0
    THEN LET i == CHOOSE k \in 1..Len(line) :
                     /\ MatchEndAt(line, k) > 0
                     /\ \A j \in 1..(k - 1) : MatchEndAt(line, j) = 0
         IN  SubSeq(line, i, MatchEndAt(line, i))
    ELSE None

\* mutant of ScanLines: the loop has no break, the last 'version=' line decides
RECURSIVE ScanLines_no_break(_)
ScanLines_no_break(ls) ==
    IF ls = <<>> THEN None
    ELSE LET later == ScanLines_no_break(Tail(ls))
         IN  IF \E i \in 1..Len(Tail(ls)) : Contains(Tail(ls)[i], VERSION_EQ)
             THEN later
             ELSE IF Contains(Head(ls), VERSION_EQ)
                  THEN get_version_from_line(Head(ls))
                  ELSE None

\* the for loop of extract_current_version: the first line containing
\* 'version=' decides, and the loop breaks there
RECURSIVE ScanLines(_)
ScanLines(ls) ==
    IF ls = <<>> THEN None
    ELSE IF Contains(Head(ls), VERSION_EQ)
         THEN get_version_from_line(Head(ls))
         ELSE ScanLines(Tail(ls))

\* re.compile('^[0-9]+\.[0-9]+\.[0-9]+$').match(version), for a str: `$`
\* matches at the end and before a final newline
FullMatch(v) ==
    LET e == MatchEndAt(v, 1)
    IN  /\ e > 0
        /\ \/ e = Len(v)
           \/ e = Len(v) - 1 /\ v[Len(v)] = LF

\* validate_release_number: what the call raises ("" when it returns).
\* re.match on None raises TypeError before the `if not` is evaluated.
validate_release_number(version) ==
    IF version = None THEN "TypeError"
    ELSE IF ~FullMatch(version) THEN "NewReleaseError"
    ELSE ""

\* mutant of validate_release: the membership test is missing
validate_release_accept_all(release) == ""

\* validate_release: what the call raises ("" when it returns)
validate_release(release) ==
    IF release \notin BUMP_VERSIONS THEN "NewReleaseError" ELSE ""

\* mutant of next_version: a minor bump forgets `patch = 0`
next_version_of_no_patch_reset(current, release) ==
    LET p == SplitDot(current)
    IN  CASE release = "major" ->
                 FormatInt(ParseInt(p[1]) + 1) \o <<".", "0", ".", "0">>
          [] release = "minor" ->
                 p[1] \o <<".">> \o FormatInt(ParseInt(p[2]) + 1) \o <<".">> \o p[3]
          [] release = "patch" ->
                 p[1] \o <<".">> \o p[2] \o <<".">> \o FormatInt(ParseInt(p[3]) + 1)
          [] OTHER -> current

\* mutant of next_version: a major bump forgets `minor = 0` and `patch = 0`
next_version_of_no_minor_reset(current, release) ==
    LET p == SplitDot(current)
    IN  CASE release = "major" ->
                 FormatInt(ParseInt(p[1]) + 1) \o <<".">> \o p[2] \o <<".">> \o p[3]
          [] release = "minor" ->
                 p[1] \o <<".">> \o FormatInt(ParseInt(p[2]) + 1) \o <<".", "0">>
          [] release = "patch" ->
                 p[1] \o <<".">> \o p[2] \o <<".">> \o FormatInt(ParseInt(p[3]) + 1)
          [] OTHER -> current

\* next_version: three independent ifs over the split of current_version;
\* a component that is not bumped or reset keeps its text
next_version_of(current, release) ==
    LET version_split == SplitDot(current)
        major0 == version_split[1]
        minor0 == version_split[2]
        patch0 == version_split[3]
        major1 == IF release = "major" THEN FormatInt(ParseInt(major0) + 1) ELSE major0
        minor1 == IF release = "major" THEN FormatInt(0) ELSE minor0
        patch1 == IF release = "major" THEN FormatInt(0) ELSE patch0
        minor2 == IF release = "minor" THEN FormatInt(ParseInt(minor1) + 1) ELSE minor1
        patch2 == IF release = "minor" THEN FormatInt(0) ELSE patch1
        patch3 == IF release = "patch" THEN FormatInt(ParseInt(patch2) + 1) ELSE patch2
    IN  major1 \o <<".">> \o minor2 \o <<".">> \o patch3

\* 'version=\'{}\','.format(self.current_version)
search_string(current) == VERSION_EQ \o <<"'">> \o current \o <<"'", ",">>

\* mutant of the read loop: `if 'version=' in line` instead of the equality
rewrite_lines_substring(ls, current, next) ==
    [i \in 1..Len(ls) |->
        IF Contains(ls[i], VERSION_EQ)
        THEN Replace(ls[i], current, next)
        ELSE ls[i]]

\* mutant of the read loop: the matching line is rebuilt from the search
\* string and loses its indentation and its newline
rewrite_lines_rebuilt(ls, current, next) ==
    [i \in 1..Len(ls) |->
        IF Strip(ls[i]) = search_string(current)
        THEN search_string(next)
        ELSE ls[i]]

\* the read loop of update_setup_file over the lines of the file
rewrite_lines(ls, current, next) ==
    [i \in 1..Len(ls) |->
        IF Strip(ls[i]) = search_string(current)
        THEN Replace(ls[i], current, next)
        ELSE ls[i]]

\* mutant of update_git: the tag is named after the bare version
tag_name_bare(new_version) == new_version

commit_message(new_version) == MSG_PREFIX \o new_version
tag_name(new_version) == TAG_PREFIX \o new_version

(***************************************************************************)
(* State.                                                                  *)
(***************************************************************************)
VARIABLES
    manifest,         \* content of setup.py in the working directory
    index,            \* content of setup.py in git's staging index
    otherStaged,      \* other paths are staged with changes against HEAD
    commits,          \* the current branch: records [message, setup], HEAD last
    tags,             \* records [name, commit]: tag name -> index in commits
    pc,               \* where the running process is
    argv,             \* sys.argv[1:] of the running process
    current_version,  \* self.current_version
    next_version,     \* local next_version of update_version
    error,            \* the exception that ended the process, "" if none
    stdout,           \* what the running process has printed
    runs,             \* processes started so far
    log,              \* effects of the running process, in order
    start,            \* the file and the repository when the process started
    created,          \* tag names created by runs of the tool
    history           \* [run, kind, old, new] of every run that printed its report

vars == <<manifest, index, otherStaged, commits, tags, pc, argv,
          current_version, next_version, error, stdout, runs, log, start,
          created, history>>

repo == <<index, otherStaged, commits, tags>>
self == <<current_version, next_version>>
ghost == <<start, created, history>>

Kinds == BUMP_VERSIONS \cup {"revision"}
Argvs == {<<>>} \cup { <<k>> : k \in Kinds }

TagNames == { t.name : t \in tags }

Init ==
    /\ manifest \in Manifests
    /\ index = manifest
    /\ otherStaged \in BOOLEAN
    /\ commits = <<[message |-> <<>>, setup |-> manifest]>>
    /\ tags \in { {}, {[name |-> V020, commit |-> 1]} }
    /\ pc = "idle"
    /\ argv = <<>>
    /\ current_version = None
    /\ next_version = None
    /\ error = ""
    /\ stdout = <<>>
    /\ runs = 0
    /\ log = <<>>
    /\ start = [manifest |-> manifest, index |-> index,
                otherStaged |-> otherStaged, commits |-> commits, tags |-> tags]
    /\ created = {}
    /\ history = <<>>

(***************************************************************************)
(* One process: the __main__ block, NewRelease() and update_version, step  *)
(* by step.  Every step that touches the file or the repository is its own *)
(* action, because the process can die between any two of them.            *)
(***************************************************************************)
\* a new process is started in the same working directory
Start ==
    /\ pc \in {"idle", "done", "failed"}
    /\ runs < MaxRuns
    /\ \E a \in Argvs : argv' = a
    /\ runs' = runs + 1
    /\ pc' = "main"
    /\ current_version' = None
    /\ next_version' = None
    /\ error' = ""
    /\ stdout' = <<>>
    /\ log' = <<>>
    /\ start' = [manifest |-> manifest, index |-> index,
                 otherStaged |-> otherStaged, commits |-> commits, tags |-> tags]
    /\ UNCHANGED <<manifest, repo, created, history>>

\* if len(sys.argv) != 2: print usage
Usage ==
    /\ pc = "main"
    /\ Len(argv) # 1
    /\ stdout' = Append(stdout, <<"usage">>)
    /\ pc' = "done"
    /\ UNCHANGED <<manifest, repo, argv, self, error, runs, log, ghost>>

\* NewRelease(): __init__ -> extract_current_version, which returns
Extract ==
    /\ pc = "main"
    /\ Len(argv) = 1
    /\ LET v == ScanLines(ReadLines(manifest))
       IN  /\ validate_release_number(v) = ""
           /\ current_version' = v
    /\ pc' = "validate"
    /\ UNCHANGED <<manifest, repo, argv, next_version, error, stdout, runs, log,
                   ghost>>

\* NewRelease(): extract_current_version raises out of validate_release_number
ExtractFail ==
    /\ pc = "main"
    /\ Len(argv) = 1
    /\ LET v == ScanLines(ReadLines(manifest))
       IN  /\ validate_release_number(v) # ""
           /\ error' = validate_release_number(v)
    /\ pc' = "failed"
    /\ log' = Append(log, "extract-raised")
    /\ UNCHANGED <<manifest, repo, argv, self, stdout, runs, ghost>>

\* update_version: self.validate_release(release) returns
Validate ==
    /\ pc = "validate"
    /\ validate_release(argv[1]) = ""
    /\ pc' = "next"
    /\ log' = Append(log, "validate")
    /\ UNCHANGED <<manifest, repo, argv, self, error, stdout, runs, ghost>>

\* update_version: self.validate_release(release) raises
ValidateFail ==
    /\ pc = "validate"
    /\ validate_release(argv[1]) # ""
    /\ error' = validate_release(argv[1])
    /\ pc' = "failed"
    /\ log' = Append(log, "validate-raised")
    /\ UNCHANGED <<manifest, repo, argv, self, stdout, runs, ghost>>

\* update_version: next_version = self.next_version(release)
NextVersion ==
    /\ pc = "next"
    /\ next_version' = next_version_of(current_version, argv[1])
    /\ pc' = "write"
    /\ log' = Append(log, "next")
    /\ UNCHANGED <<manifest, repo, argv, current_version, error, stdout, runs,
                   ghost>>

\* update_setup_file: read every line, replace, write every line back
WriteSetupFile ==
    /\ pc = "write"
    /\ manifest' = WriteLines(rewrite_lines(ReadLines(manifest), current_version,
                                            next_version))
    /\ pc' = "stage"
    /\ log' = Append(log, "write")
    /\ UNCHANGED <<repo, argv, self, error, stdout, runs, ghost>>

\* update_setup_file: self.repo.git.add(__SETUP_FILE)
GitAdd ==
    /\ pc = "stage"
    /\ index' = manifest
    /\ pc' = "commit"
    /\ log' = Append(log, "stage")
    /\ UNCHANGED <<manifest, otherStaged, commits, tags, argv, self, error, stdout,
                   runs, ghost>>

\* what `git commit` has to record: the index differs from HEAD
SomethingStaged == otherStaged \/ index # commits[Len(commits)].setup

\* update_git: self.repo.git.commit(m=commit_message) succeeds
GitCommit ==
    /\ pc = "commit"
    /\ SomethingStaged
    /\ commits' = Append(commits, [message |-> commit_message(next_version),
                                   setup |-> index])
    /\ otherStaged' = FALSE
    /\ pc' = "tag"
    /\ log' = Append(log, "commit")
    /\ UNCHANGED <<manifest, index, tags, argv, self, error, stdout, runs, ghost>>

\* mutant of update_git: the failure of git commit is swallowed and the
\* method goes on to create the tag
GitCommitFail_swallowed ==
    /\ pc = "commit"
    /\ pc' = "tag"
    /\ log' = Append(log, "commit-raised")
    /\ UNCHANGED <<manifest, repo, argv, self, error, stdout, runs, ghost>>

\* update_git: git commit exits non-zero (nothing to commit, a hook, no
\* identity, ...) and GitPython raises GitCommandError
GitCommitFail ==
    /\ pc = "commit"
    /\ error' = "GitCommandError"
    /\ pc' = "failed"
    /\ log' = Append(log, "commit-raised")
    /\ UNCHANGED <<manifest, repo, argv, self, stdout, runs, ghost>>

\* update_git: self.repo.create_tag('v...') succeeds: the name is free
CreateTag ==
    /\ pc = "tag"
    /\ tag_name(next_version) \notin TagNames
    /\ tags' = tags \cup {[name |-> tag_name(next_version),
                           commit |-> Len(commits)]}
    /\ created' = created \cup {tag_name(next_version)}
    /\ pc' = "report"
    /\ log' = Append(log, "tag")
    /\ UNCHANGED <<manifest, index, otherStaged, commits, argv, self, error,
                   stdout, runs, start, history>>

\* update_git: git tag fails because the tag already exists
CreateTagFail ==
    /\ pc = "tag"
    /\ tag_name(next_version) \in TagNames
    /\ error' = "GitCommandError"
    /\ pc' = "failed"
    /\ log' = Append(log, "tag-raised")
    /\ UNCHANGED <<manifest, repo, argv, self, stdout, runs, ghost>>

\* update_version: print('Old version: {}, new version: {}')
Report ==
    /\ pc = "report"
    /\ stdout' = Append(stdout, <<"Old version: ", current_version,
                                  ", new version: ", next_version>>)
    /\ history' = Append(history, [run |-> runs, kind |-> argv[1],
                                   old |-> current_version,
                                   new |-> next_version])
    /\ pc' = "done"
    /\ log' = Append(log, "report")
    /\ UNCHANGED <<manifest, repo, argv, self, error, runs, start, created>>

Next ==
    \/ Start
    \/ Usage
    \/ Extract
    \/ ExtractFail
    \/ Validate
    \/ ValidateFail
    \/ NextVersion
    \/ WriteSetupFile
    \/ GitAdd
    \/ GitCommit
    \/ GitCommitFail
    \/ CreateTag
    \/ CreateTagFail
    \/ Report

Spec == Init /\ [][Next]_vars

(***************************************************************************)
(* Vocabulary of the properties.                                           *)
(***************************************************************************)
\* the line version='<v>', the tool rewrites
VersionLine(v) == VERSION_EQ \o <<"'">> \o v \o <<"'", ",">>

\* a version as the triple of integers (major, minor, patch)
Triple(v) ==
    LET p == SplitDot(v) IN <<ParseInt(p[1]), ParseInt(p[2]), ParseInt(p[3])>>

\* the table of the three bump kinds over triples
Bump(t, kind) ==
    CASE kind = "major" -> <<t[1] + 1, 0, 0>>
      [] kind = "minor" -> <<t[1], t[2] + 1, 0>>
      [] kind = "patch" -> <<t[1], t[2], t[3] + 1>>

\* (major, minor, patch) order
Less(a, b) ==
    \/ a[1] < b[1]
    \/ a[1] = b[1] /\ a[2] < b[2]
    \/ a[1] = b[1] /\ a[2] = b[2] /\ a[3] < b[3]

\* file content m has a line whose trimmed content is version='<v>',
HasLine(m, v) ==
    LET ls == ReadLines(m)
        line == VersionLine(v)
    IN  \E i \in 1..Len(ls) : Strip(ls[i]) = line

\* what sits between version=' and ', in a line
DeclaredIn(line) ==
    LET t == Strip(line) IN SubSeq(t, Len(VERSION_EQ) + 2, Len(t) - 2)

\* the trimmed content of the line is version='<x.y.z>',
ShapedLine(line) ==
    /\ FullMatch(DeclaredIn(line))
    /\ Strip(line) = VersionLine(DeclaredIn(line))

VersionEqLines(m) ==
    LET ls == ReadLines(m) IN { i \in 1..Len(ls) : Contains(ls[i], VERSION_EQ) }

\* exactly one line contains version= and it reads version='<x.y.z>',
Shaped(m) ==
    LET ls == ReadLines(m)
        at == { i \in 1..Len(ls) : Contains(ls[i], VERSION_EQ) }
    IN  /\ Cardinality(at) = 1
        /\ \A i \in at : ShapedLine(ls[i])

\* the first line of m that contains version=
FirstVersionEqLine(m) ==
    ReadLines(m)[CHOOSE i \in VersionEqLines(m) :
                     \A j \in VersionEqLines(m) : i <= j]

DeclaredVersion(m) ==
    DeclaredIn(ReadLines(m)[CHOOSE i \in VersionEqLines(m) : TRUE])

\* some substring of the line is a version
HasVersion(line) ==
    \E a \in 1..Len(line) : \E b \in a..Len(line) :
        LET v == SubSeq(line, a, b) IN FullMatch(v) /\ v[Len(v)] # LF

\* the lines of a file as stored, each with the terminator it has on disk
RECURSIVE RawLines(_)
RawLines(b) ==
    IF b = <<>> THEN <<>>
    ELSE IF \E i \in 1..Len(b) : b[i] \in {CR, LF}
         THEN LET i == CHOOSE k \in 1..Len(b) :
                          b[k] \in {CR, LF} /\ \A j \in 1..(k - 1) : b[j] \notin {CR, LF}
                  e == IF b[i] = CR /\ i < Len(b) /\ b[i + 1] = LF THEN i + 1 ELSE i
              IN  <<SubSeq(b, 1, e)>> \o RawLines(SubSeq(b, e + 1, Len(b)))
         ELSE <<b>>

ValidRun == Len(argv) = 1 /\ argv[1] \in BUMP_VERSIONS
Extracted == current_version # None
Unchanged ==
    /\ manifest = start.manifest
    /\ index = start.index
    /\ otherStaged = start.otherStaged
    /\ commits = start.commits
    /\ tags = start.tags
FullLog == <<"validate", "next", "write", "stage", "commit", "tag", "report">>

(***************************************************************************)
(* C1: next_version follows the table: major gives (major+1, 0, 0), minor  *)
(* gives (major, minor+1, 0), patch gives (major, minor, patch+1), for the *)
(* current version and kind of every run that got as far as computing it.  *)
(***************************************************************************)
C1_NextVersionTable ==
    (ValidRun /\ next_version # None) =>
        Triple(next_version) = Bump(Triple(current_version), argv[1])

\* a minor bump with a carry and a reset: 1.09.9 -> 1.10.0
C1_Witness ==
    /\ pc = "write"
    /\ argv = <<"minor">>
    /\ Triple(current_version) = <<1, 9, 9>>
    /\ Triple(next_version) = <<1, 10, 0>>

(***************************************************************************)
(* C2: with a bump kind outside major/minor/patch the run never gets past  *)
(* validate_release, which raises NewReleaseError, and the manifest, the   *)
(* index, the commits and the tags are what they were when it started.     *)
(***************************************************************************)
C2_InvalidKindNoMutation ==
    (Len(argv) = 1 /\ argv[1] \notin BUMP_VERSIONS) =>
        /\ pc \in {"main", "validate", "failed"}
        /\ Unchanged
        /\ (pc = "failed" /\ Extracted) =>
               /\ error = "NewReleaseError"
               /\ log = <<"validate-raised">>
               /\ stdout = <<>>

C2_Witness ==
    /\ pc = "failed"
    /\ argv = <<"revision">>
    /\ Extracted
    /\ error = "NewReleaseError"
    /\ start.otherStaged

(***************************************************************************)
(* C3 (as claimed): whenever extract_current_version fails, on a manifest  *)
(* without a version= line or with a malformed version on its first        *)
(* version= line, the error is the tool's own NewReleaseError.             *)
(***************************************************************************)
C3_ExtractRaisesNewReleaseError ==
    (pc = "failed" /\ log = <<"extract-raised">>) => error = "NewReleaseError"

(***************************************************************************)
(* C4: the version extracted comes from the first line containing          *)
(* version=: it occurs in that line, it is x.y.z when the line reads       *)
(* version='x.y.z', and it is what extraction gives on the file cut after  *)
(* that line; extraction fails when that line holds no version, whatever   *)
(* the later lines hold.                                                   *)
(***************************************************************************)
C4_FirstVersionLineDecides ==
    (pc = "validate" \/ (pc = "failed" /\ log = <<"extract-raised">>)) =>
        LET ls == ReadLines(start.manifest)
            at == { i \in 1..Len(ls) : Contains(ls[i], VERSION_EQ) }
            first == CHOOSE i \in at : \A j \in at : i <= j
        IN  /\ pc = "validate" =>
                   /\ at # {}
                   /\ Contains(ls[first], current_version)
                   /\ ShapedLine(ls[first]) => current_version = DeclaredIn(ls[first])
                   /\ current_version = ScanLines(SubSeq(ls, 1, first))
            /\ pc = "failed" => (at # {} => ~HasVersion(ls[first]))

\* two version= lines with different versions: the first one wins
C4_Witness ==
    /\ pc = "validate"
    /\ Cardinality(VersionEqLines(start.manifest)) = 2
    /\ Triple(current_version) = <<1, 9, 9>>
    /\ HasLine(start.manifest, <<"0", ".", "1", ".", "0">>)

(***************************************************************************)
(* C5 (as claimed): update_setup_file changes exactly the lines whose      *)
(* trimmed content is version='<current>', replacing <current> by <next>,  *)
(* and every other line is on disk byte for byte what it was, in the same  *)
(* number and order.                                                       *)
(***************************************************************************)
C5_OtherLinesByteForByte ==
    pc = "stage" =>
        LET old == RawLines(start.manifest)
            new == RawLines(manifest)
        IN  /\ Len(new) = Len(old)
            /\ \A i \in 1..Len(old) :
                   new[i] = IF Strip(old[i]) = VersionLine(current_version)
                            THEN Replace(old[i], current_version, next_version)
                            ELSE old[i]

(***************************************************************************)
(* C6: a run with a valid kind takes its steps in the order validate,      *)
(* next, write, stage, commit, tag, report; and when it completes on a     *)
(* manifest that held version='<old>', the manifest holds version='<next>',*)
(* the newest commit is "New release: v<next>" and tag v<next> points at   *)
(* it.                                                                     *)
(***************************************************************************)
C6_RunOrderAndResult ==
    ValidRun =>
        /\ pc \in {"validate", "next", "write"} => Unchanged
        /\ pc = "stage" =>
               /\ index = start.index
               /\ commits = start.commits
               /\ tags = start.tags
        /\ pc = "commit" =>
               /\ index = manifest
               /\ commits = start.commits
               /\ tags = start.tags
        /\ pc = "tag" =>
               /\ Len(commits) = Len(start.commits) + 1
               /\ tags = start.tags
               /\ stdout = <<>>
        /\ pc = "done" =>
               /\ log = FullLog
               /\ Len(commits) = Len(start.commits) + 1
               /\ commits[Len(commits)].message = MSG_PREFIX \o next_version
               /\ commits[Len(commits)].setup = manifest
               /\ [name |-> <<"v">> \o next_version, commit |-> Len(commits)] \in tags
               /\ Triple(next_version) = Bump(Triple(current_version), argv[1])
               /\ HasLine(start.manifest, current_version) =>
                      /\ HasLine(manifest, next_version)
                      /\ ~HasLine(manifest, current_version)

\* the end-to-end scenario: 0.1.0 with minor gives 0.2.0
C6_Witness ==
    /\ pc = "done"
    /\ argv = <<"minor">>
    /\ HasLine(start.manifest, <<"0", ".", "1", ".", "0">>)
    /\ HasLine(manifest, <<"0", ".", "2", ".", "0">>)
    /\ commits[Len(commits)].message = MSG_PREFIX \o <<"0", ".", "2", ".", "0">>
    /\ [name |-> V020, commit |-> Len(commits)] \in tags

(***************************************************************************)
(* C7: two complete runs in succession with the same kind give two         *)
(* different new versions: the second one starts from the version the      *)
(* first one wrote and bumps it again.                                     *)
(***************************************************************************)
C7_NotIdempotent ==
    \A i \in 1..(Len(history) - 1) :
        (/\ history[i + 1].run = history[i].run + 1
         /\ history[i + 1].kind = history[i].kind) =>
            /\ history[i + 1].old = history[i].new
            /\ history[i + 1].new # history[i].new
            /\ Triple(history[i + 1].new) =
                   Bump(Bump(Triple(history[i].old), history[i].kind),
                        history[i].kind)

\* two complete major bumps in a row from 1.09.9: 2.0.0 then 3.0.0
C7_Witness ==
    /\ Len(history) >= 2
    /\ history[1].kind = "major" /\ history[2].kind = "major"
    /\ history[2].run = history[1].run + 1
    /\ Triple(history[1].old) = <<1, 9, 9>>
    /\ Triple(history[2].new) = <<3, 0, 0>>
    /\ pc = "done"

(***************************************************************************)
(* C8: nothing is rolled back.  A run whose commit fails stops there with  *)
(* the manifest rewritten and staged, no new commit, no new tag and no     *)
(* report; a run whose tag fails stops there with the new commit on the    *)
(* branch, the manifest rewritten, no new tag and no report.               *)
(***************************************************************************)
Rewritten ==
    LET old == ReadLines(start.manifest)
        new == ReadLines(manifest)
    IN  /\ Len(new) = Len(old)
        /\ \A i \in 1..Len(old) :
               IF Strip(old[i]) = VersionLine(current_version)
               THEN Strip(new[i]) = VersionLine(next_version)
               ELSE new[i] = old[i]

InLog(e) == \E i \in 1..Len(log) : log[i] = e

C8_NoRollback ==
    /\ InLog("commit-raised") =>
           /\ pc = "failed"
           /\ log = <<"validate", "next", "write", "stage", "commit-raised">>
           /\ Rewritten
           /\ index = manifest
           /\ commits = start.commits
           /\ tags = start.tags
           /\ stdout = <<>>
    /\ InLog("tag-raised") =>
           /\ pc = "failed"
           /\ log = <<"validate", "next", "write", "stage", "commit", "tag-raised">>
           /\ Rewritten
           /\ commits = Append(start.commits,
                               [message |-> MSG_PREFIX \o next_version,
                                setup |-> manifest])
           /\ tags = start.tags
           /\ stdout = <<>>

\* the commit failed after the version line was rewritten
C8_Witness ==
    /\ pc = "failed"
    /\ InLog("commit-raised")
    /\ HasLine(start.manifest, current_version)
    /\ HasLine(manifest, next_version)
    /\ next_version # current_version
    /\ index = manifest

(***************************************************************************)
(* C9: when no line reads version='<current>', update_setup_file writes    *)
(* back the text it read and raises nothing, and the run goes on to stage, *)
(* commit "New release: v<next>" and tag v<next>; it can complete with the *)
(* tag created while the manifest still declares <current>.                *)
(***************************************************************************)
C9_SilentNoOp ==
    (/\ pc \in {"stage", "commit", "tag", "report", "done", "failed"}
     /\ ValidRun
     /\ Extracted
     /\ ~HasLine(start.manifest, current_version)) =>
        /\ ReadLines(manifest) = ReadLines(start.manifest)
        /\ error \in {"", "GitCommandError"}
        /\ pc = "failed" => (InLog("commit-raised") \/ InLog("tag-raised"))
        /\ pc = "commit" => index = manifest
        /\ pc = "done" =>
               /\ commits[Len(commits)].message = MSG_PREFIX \o next_version
               /\ <<"v">> \o next_version \in TagNames
               /\ Contains(FirstVersionEqLine(manifest), current_version)

\* the run completed, tag v<next> exists and the manifest still says <current>
C9_Witness ==
    /\ pc = "done"
    /\ ValidRun
    /\ ~HasLine(start.manifest, current_version)
    /\ <<"v">> \o next_version \in created
    /\ next_version # current_version
    /\ Contains(FirstVersionEqLine(manifest), current_version)
    /\ ~Contains(manifest, next_version)

(***************************************************************************)
(* C10: from a manifest whose only version= line reads version='<x.y.z>',  *)
(* the manifest keeps that shape; after every completed run the version it *)
(* declares is the tag that run created without its v; the versions of the *)
(* completed runs increase strictly; and no run reaches the tag step with  *)
(* a name an earlier run of the tool created.                              *)
(***************************************************************************)
C10_ShapeAndMonotonicTags ==
    /\ (pc \in {"stage", "done", "failed"} /\ Shaped(start.manifest)) =>
           Shaped(manifest)
    /\ (pc = "done" /\ Len(argv) = 1 /\ Shaped(start.manifest)) =>
           /\ DeclaredVersion(manifest) = next_version
           /\ tags \ start.tags =
                  {[name |-> <<"v">> \o DeclaredVersion(manifest),
                    commit |-> Len(commits)]}
           /\ history[Len(history)].new = DeclaredVersion(manifest)
           /\ \A i \in 1..Len(history) : \A j \in 1..Len(history) :
                  i < j => Less(Triple(history[i].new), Triple(history[j].new))
    /\ (pc = "tag" /\ Shaped(start.manifest)) =>
           <<"v">> \o next_version \notin created

\* a second completed run on a well-shaped manifest, with a new tag
C10_Witness ==
    /\ pc = "done"
    /\ Len(history) = 2
    /\ Shaped(start.manifest)
    /\ Cardinality(created) = 2
    /\ history[2].new = DeclaredVersion(manifest)

====
